---------------------------- MODULE Spec2Model ----------------------------
(***************************************************************************)
(* A model of getpdb (src/getpdb.py): the command-line run of main(), the  *)
(* per-identifier host-fallback loop of getpdb(), the per-host retrieval   *)
(* of _getpdb() and the write step.                                        *)
(*                                                                         *)
(* Text (identifiers, types, paths, payloads) is a sequence of one-letter  *)
(* strings, so that str.lower(), str.upper(), str.split("\n") and          *)
(* print(line, file=handle) are computed as Python computes them.  An      *)
(* optional value (None or a value) is a sequence of length 0 or 1.        *)
(***************************************************************************)
EXTENDS Integers, Sequences, FiniteSets, TLC

\* ------------------------------------------------------------------ bounds
\* Longest list of identifiers on the command line.
MaxCodes == 2
\* Longest response body, in characters.
MaxBody == 1

\* ------------------------------------------------------- text and helpers
NL == "\n"

None == <<>>
Some(v) == <<v>>

\* The letters str.lower() / str.upper() change.
LowerMap ==
  [A |-> "a", B |-> "b", C |-> "c", D |-> "d", E |-> "e", F |-> "f",
   G |-> "g", H |-> "h", I |-> "i", J |-> "j", K |-> "k", L |-> "l",
   M |-> "m", N |-> "n", O |-> "o", P |-> "p", Q |-> "q", R |-> "r",
   S |-> "s", T |-> "t", U |-> "u", V |-> "v", W |-> "w", X |-> "x",
   Y |-> "y", Z |-> "z"]

LowerChar(c) == IF c \in DOMAIN LowerMap THEN LowerMap[c] ELSE c

UpperChar(c) ==
  IF \E u \in DOMAIN LowerMap : LowerMap[u] = c
    THEN CHOOSE u \in DOMAIN LowerMap : LowerMap[u] = c
    ELSE c

\* str.lower()
Lower(s) == [i \in 1..Len(s) |-> LowerChar(s[i])]

\* str.upper()
Upper(s) == [i \in 1..Len(s) |-> UpperChar(s[i])]

\* A variant of Split that splits as str.splitlines() does: no piece for
\* the empty text, none after a final newline.
RECURSIVE SplitLines(_)
SplitLines(s) ==
  IF s = <<>> THEN <<>>
  ELSE IF \A i \in 1..Len(s) : s[i] # NL
    THEN <<s>>
    ELSE LET k == CHOOSE i \in 1..Len(s) :
                    s[i] = NL /\ \A j \in 1..(i-1) : s[j] # NL
         IN  <<SubSeq(s, 1, k-1)>> \o SplitLines(SubSeq(s, k+1, Len(s)))

\* str.split("\n"): always at least one piece, the empty text gives <<"">>.
RECURSIVE Split(_)
Split(s) ==
  IF \A i \in 1..Len(s) : s[i] # NL
    THEN <<s>>
    ELSE LET k == CHOOSE i \in 1..Len(s) :
                    s[i] = NL /\ \A j \in 1..(i-1) : s[j] # NL
         IN  <<SubSeq(s, 1, k-1)>> \o Split(SubSeq(s, k+1, Len(s)))

\* What print(line, file=handle) has put in the file after the first n
\* lines of data: each line followed by a newline.
RECURSIVE Printed(_, _)
Printed(data, n) ==
  IF n = 0 THEN <<>> ELSE Printed(data, n-1) \o data[n] \o <<NL>>

\* os.path.join(a, b) on POSIX.
PathJoin(a, b) ==
  IF Len(b) > 0 /\ b[1] = "/" THEN b
  ELSE IF Len(a) = 0 \/ a[Len(a)] = "/" THEN a \o b
  ELSE a \o <<"/">> \o b

\* ------------------------------------------------------ program constants
FILE_DEFAULT_SMALL == <<"s", "d", "f">>
FILE_DEFAULT_LARGE == <<"c", "i", "f">>

T_pdb == <<"p", "d", "b">>
T_cif == <<"c", "i", "f">>
T_bcif == <<"b", "c", "i", "f">>
T_xml == <<"x", "m", "l">>
T_sdf == <<"s", "d", "f">>
T_mol2 == <<"m", "o", "l", "2">>
T_json == <<"j", "s", "o", "n">>
T_asnt == <<"a", "s", "n", "t">>

\* The supported file types of each host.
DATABASE_HOSTS ==
  [h \in {"rcsb", "rcsb-ligand", "pubchem", "alphafold"} |->
     CASE h = "rcsb"        -> {T_pdb, T_cif, T_bcif, T_xml}
       [] h = "rcsb-ligand" -> {T_cif, T_sdf, T_mol2}
       [] h = "pubchem"     -> {T_sdf, T_json, T_xml, T_asnt}
       [] h = "alphafold"   -> {T_cif, T_bcif, T_pdb}]

\* A variant of HostKeys with the first two hosts in the other order.
HostKeysSwapped == <<"rcsb-ligand", "rcsb", "pubchem", "alphafold">>

\* DATABASE_HOSTS.keys(): a dict iterates in insertion order.
HostKeys == <<"rcsb", "rcsb-ligand", "pubchem", "alphafold">>


\* ------------------------------------------------- responses of the hosts
\* A byte outside ASCII, as bytes.decode("ascii") sees it.
BYTE_E9 == "<E9>"

BodyChars == {"a", NL}

\* Every text of at most MaxBody characters.
Bodies == UNION {[1..n -> BodyChars] : n \in 0..MaxBody}

\* What the network gives back for a GET: status is "neterr" when
\* requests.get itself raises, "http" for a 4xx/5xx answer, "ok" for 2xx.
\* gzip: the content is a gzip stream; body: the (decompressed) content;
\* json: what response.json()[0] and the key lookup find (alphafold);
\* status2/body2: the answer to the second GET (alphafold).
Response(st, gz, b, js, st2, b2) ==
  [status |-> st, gzip |-> gz, body |-> b, json |-> js,
   status2 |-> st2, body2 |-> b2]

\* The body the hosts serve in a run over several identifiers: two lines.
SampleBodies == {<<"a", NL, "a">>}

PlainFailures ==
  {Response(st, FALSE, <<>>, "none", "none", <<>>) : st \in {"neterr", "http"}}

\* Answers to the single GET of rcsb: compressed content.
RcsbResponses(B) ==
  PlainFailures
    \cup {Response("ok", TRUE, b, "none", "none", <<>>) : b \in B}
    \cup {Response("ok", FALSE, <<"a">>, "none", "none", <<>>),
          Response("ok", TRUE, <<BYTE_E9>>, "none", "none", <<>>)}

\* Answers to the single GET of rcsb-ligand and pubchem: text.
TextResponses(B) ==
  PlainFailures
    \cup {Response("ok", FALSE, b, "none", "none", <<>>) : b \in B}

\* Answers to the two GETs of alphafold.
AlphafoldResponses(B) ==
  PlainFailures
    \cup {Response("ok", FALSE, <<>>, js, "none", <<>>) :
             js \in {"badjson", "empty", "nokey"}}
    \cup {Response("ok", FALSE, <<>>, "ok", st2, <<>>) :
             st2 \in {"neterr", "http"}}
    \cup {Response("ok", FALSE, <<>>, "ok", "ok", b) : b \in B}

\* The answers host may give when the bodies it serves are B.
ResponsesOf(host, B) ==
  CASE host = "rcsb" -> RcsbResponses(B)
    [] host = "alphafold" -> AlphafoldResponses(B)
    [] OTHER -> TextResponses(B)

\* ---------------------------------------------------------------- _getpdb
\* The result of a call: exc is "none" when it returned data, else the
\* class of the exception it raised; gets is the number of GETs it issued.
Returned(lines, n) == [exc |-> "none", data |-> lines, gets |-> n]
Raised(kind, n) == [exc |-> kind, data |-> <<>>, gets |-> n]

\* requests.get(url) followed by response.raise_for_status().
GetStatus(st) ==
  CASE st = "neterr" -> "ConnectionError"
    [] st = "http" -> "HTTPError"
    [] OTHER -> "none"

\* gzip.decompress(response.content).decode("ascii")
Decompress(r) ==
  IF ~r.gzip THEN [exc |-> "BadGzipFile", text |-> <<>>]
  ELSE IF \E i \in 1..Len(r.body) : r.body[i] = BYTE_E9
    THEN [exc |-> "UnicodeDecodeError", text |-> <<>>]
  ELSE [exc |-> "none", text |-> r.body]

GetRcsb(code, type, r) ==
  IF GetStatus(r.status) # "none" THEN Raised(GetStatus(r.status), 1)
  ELSE IF Decompress(r).exc # "none" THEN Raised(Decompress(r).exc, 1)
  ELSE Returned(Split(Decompress(r).text), 1)

GetText(code, type, r) ==
  IF GetStatus(r.status) # "none" THEN Raised(GetStatus(r.status), 1)
  ELSE Returned(Split(r.body), 1)

GetAlphafold(code, type, r) ==
  IF GetStatus(r.status) # "none" THEN Raised(GetStatus(r.status), 1)
  ELSE IF r.json = "badjson" THEN Raised("JSONDecodeError", 1)
  ELSE IF r.json = "empty" THEN Raised("IndexError", 1)
  ELSE IF Lower(type) \notin {T_cif, T_bcif, T_pdb} THEN Raised("Exception", 1)
  ELSE IF r.json = "nokey" THEN Raised("KeyError", 1)
  ELSE IF GetStatus(r.status2) # "none" THEN Raised(GetStatus(r.status2), 2)
  ELSE Returned(Split(r.body2), 2)

\* _getpdb(code, type, host, verify) when the network answers r.  The
\* host names it is called with are the keys of DATABASE_HOSTS, all in
\* lower case, so host.lower() is the name itself.
GetpdbHost(code, type, host, r) ==
  CASE host = "rcsb" -> GetRcsb(code, type, r)
    [] host = "rcsb-ligand" -> GetText(code, type, r)
    [] host = "pubchem" -> GetText(code, type, r)
    [] host = "alphafold" -> GetAlphafold(code, type, r)
    [] OTHER -> Raised("Exception", 0)

\* The URL of the GET number n of a call.
Url(code, type, host, n) ==
  CASE host = "rcsb" ->
         <<"https://files.rcsb.org/download/">> \o Upper(code) \o <<".">>
           \o Lower(type) \o <<".gz">>
    [] host = "rcsb-ligand" ->
         IF Lower(type) \in {T_sdf, T_mol2}
           THEN <<"https://files.rcsb.org/ligands/download/">> \o Upper(code)
                  \o <<"_ideal.">> \o Lower(type)
           ELSE <<"https://files.rcsb.org/ligands/download/">> \o Upper(code)
                  \o <<".">> \o Lower(type)
    [] host = "pubchem" ->
         <<"https://pubchem.ncbi.nlm.nih.gov/rest/pug/compound/CID/">> \o code
           \o <<"/record/">> \o Upper(type) \o <<"?record_type=3d">>
    [] host = "alphafold" ->
         IF n = 1
           THEN <<"https://alphafold.ebi.ac.uk/api/prediction/">> \o Upper(code)
           ELSE <<"meta">> \o Lower(type) \o <<"Url">>

\* The classes `except Exception` catches: every exception the calls raise.
ExceptionClasses ==
  {"ConnectionError", "HTTPError", "BadGzipFile", "UnicodeDecodeError",
   "JSONDecodeError", "IndexError", "KeyError", "Exception", "OSError"}


\* ----------------------------------------------------------------- getpdb
\* `not type`: None and the empty string are both false.
NotType(t) == t = None \/ t[1] = <<>>

\* A variant of InferType with `len(code) <= 4`.
InferTypeLe(code, t) ==
  IF NotType(t)
    THEN IF Len(code) <= 4 THEN FILE_DEFAULT_SMALL ELSE FILE_DEFAULT_LARGE
    ELSE t[1]

\* Lines 136-140: the type getpdb works with.
InferType(code, t) ==
  IF NotType(t)
    THEN IF Len(code) < 4 THEN FILE_DEFAULT_SMALL ELSE FILE_DEFAULT_LARGE
    ELSE t[1]

\* A variant of HostSupports that looks the type up in the lists of all
\* the hosts together.
HostSupportsAnyHost(type, host) ==
  Lower(type) \in UNION {DATABASE_HOSTS[h] : h \in DOMAIN DATABASE_HOSTS}

\* Line 148, negated: the host supports the file type.
HostSupports(type, host) == Lower(type) \in DATABASE_HOSTS[host]

\* Line 155: the exceptions of _getpdb the loop catches.
FetchCaught(kind) == kind \in ExceptionClasses

\* A variant of AfterFetch without the `break`.
AfterFetchNoBreak(ok, h) == [pc |-> "hosts", host |-> h + 1]

\* Lines 153-156: where the loop goes after a call of _getpdb on the host
\* number h: `break` after a return, the next host after a caught exception.
AfterFetch(ok, h) ==
  IF ok THEN [pc |-> "check", host |-> h] ELSE [pc |-> "hosts", host |-> h + 1]

\* A variant of NotData that tests `data is None`: data is a list, never None.
NotDataNone(d) == FALSE

\* Line 159: `not data`.
NotData(d) == d = <<>>

\* A variant of OutputName that lower-cases the identifier too.
OutputNameLower(code, type, path) ==
  IF path # None /\ path[1] # <<>>
    THEN PathJoin(path[1], Lower(code) \o <<".">> \o Lower(type))
    ELSE Lower(code) \o <<".">> \o Lower(type)

\* Lines 164-166: the name of the output file.
OutputName(code, type, path) ==
  IF path # None /\ path[1] # <<>>
    THEN PathJoin(path[1], code \o <<".">> \o Lower(type))
    ELSE code \o <<".">> \o Lower(type)

\* A variant of WriteCaught for `except FileNotFoundError`.
WriteCaughtNarrow(kind) == kind = "FileNotFoundError"

\* Line 176: the exceptions of the write step getpdb catches.
WriteCaught(kind) == kind \in ExceptionClasses

\* What the file system does to the write step: the call that raises
\* ("none": no call does) and, for print, the line it raises on.
WriteEnvs(path, d) ==
  {[fail |-> f, line |-> 0] :
      f \in (IF path # None /\ path[1] # <<>> THEN {"makedirs"} ELSE {})
              \cup {"open", "none"}}
    \cup {[fail |-> "print", line |-> k] : k \in 1..Len(d)}

\* Lines 170-175 under env: the exception raised ("none" if none), whether
\* the directory was made, whether the file was opened, and the text put
\* in the file.
WriteResult(path, d, env) ==
  [exc    |-> IF env.fail = "none" THEN "none" ELSE "OSError",
   mkdir  |-> path # None /\ path[1] # <<>> /\ env.fail # "makedirs",
   opened |-> env.fail \in {"print", "none"},
   text   |-> IF env.fail = "print" THEN Printed(d, env.line - 1)
              ELSE Printed(d, Len(d))]

\* ------------------------------------------------------------------- main
\* action='store_true': True when the flag is on the command line.
StoreTrue(present) == present

\* Lines 213-217: args.verify, from `--no-ssl-verify` with dest="verify".
ParseVerify(noSslVerify) == StoreTrue(noSslVerify)

\* ------------------------------------------------------------------ state
VARIABLES
  served,      \* the bodies the hosts serve (fixed during a run)
  argv,        \* the command line: codes, type (-o), dir (-d), noSslVerify
  args,        \* the parsed arguments: type, dir, verify
  pc,          \* where the run is: start, main, hosts, check, write, done, crashed
  idx,         \* main's position in args.code
  type,        \* getpdb's local `type`
  host,        \* the position of the host loop in DATABASE_HOSTS.keys()
  data,        \* getpdb's local `data`
  output,      \* getpdb's local `output`
  requests,    \* every GET issued, in order
  log,         \* every logging call, in order
  fs,          \* the files: name -> text
  dirs,        \* the directories os.makedirs made
  handles,     \* the identifiers whose file object is still open
  called,      \* the identifiers getpdb was called for, in order
  okAt,        \* per identifier: Len(requests) when _getpdb returned, else 0
  tried,       \* per identifier: the calls of _getpdb, host and outcome
  payload,     \* per identifier: the text _getpdb split into lines
  created      \* per identifier: the files and directories its call made

vars == <<served, argv, args, pc, idx, type, host, data, output, requests, log, fs,
          dirs, handles, called, okAt, tried, payload, created>>

\* The identifiers, types and directories of the command lines explored.
Codes == {<<"1", "L", "Y", "Z">>, <<"H", "E", "M">>}
Types == {None, Some(<<"C", "I", "F">>), Some(<<"x", "y", "z">>)}
Dirs == {None, Some(<<"o", "u", "t">>)}

CodeLists == UNION {[1..n -> Codes] : n \in 1..MaxCodes}

\* The state before main runs, for the command lines in lists when the
\* hosts serve the bodies B.
Start(lists, B) ==
  /\ served = B
  /\ argv \in [codes : lists, type : Types, dir : Dirs, noSslVerify : BOOLEAN]
  /\ args = [type |-> None, dir |-> None, verify |-> FALSE]
  /\ pc = "start"
  /\ idx = 0
  /\ type = <<>>
  /\ host = 0
  /\ data = <<>>
  /\ output = <<>>
  /\ requests = <<>>
  /\ log = <<>>
  /\ fs = <<>>
  /\ dirs = {}
  /\ handles = {}
  /\ called = <<>>
  /\ okAt = [i \in 1..Len(argv.codes) |-> 0]
  /\ tried = [i \in 1..Len(argv.codes) |-> <<>>]
  /\ payload = [i \in 1..Len(argv.codes) |-> <<>>]
  /\ created = [i \in 1..Len(argv.codes) |-> {}]

\* A run over a list of identifiers.
Init == Start(CodeLists, SampleBodies)

\* A run over one identifier, with every body of at most MaxBody characters.
InitOne == Start({<<c>> : c \in Codes}, Bodies)

code == argv.codes[idx]

\* A logging call of getpdb: its level, which message it is, and the
\* identifier, type and host it is about.
Msg(level, what, h) ==
  [level |-> level, what |-> what, idx |-> idx, type |-> type, host |-> h]

\* Lines 187-229: parse the command line.
ParseArgs ==
  /\ pc = "start"
  /\ args' = [type |-> argv.type, dir |-> argv.dir,
              verify |-> ParseVerify(argv.noSslVerify)]
  /\ idx' = 1
  /\ pc' = "main"
  /\ UNCHANGED <<served, argv, type, host, data, output, requests, log, fs, dirs,
                 handles, called, okAt, tried, payload, created>>

\* Lines 232-233 and 136-145: main calls getpdb for the next identifier.
CallGetpdb ==
  /\ pc = "main"
  /\ idx <= Len(argv.codes)
  /\ type' = InferType(code, args.type)
  /\ data' = <<>>
  /\ host' = 1
  /\ output' = <<>>
  /\ called' = Append(called, idx)
  /\ pc' = "hosts"
  /\ UNCHANGED <<served, argv, args, idx, requests, log, fs, dirs, handles,
                 okAt, tried, payload,
                 created>>

\* Lines 148-150: a host that does not support the type is skipped.
SkipHost ==
  /\ pc = "hosts"
  /\ host <= Len(HostKeys)
  /\ ~HostSupports(type, HostKeys[host])
  /\ log' = Append(log, Msg("warning", "unsupported", HostKeys[host]))
  /\ host' = host + 1
  /\ UNCHANGED <<served, argv, args, pc, idx, type, data, output, requests, fs, dirs,
                 handles, called, okAt, tried, payload, created>>

\* The text a successful call of _getpdb on host h split into lines.
Text(h, r) == IF h = "alphafold" THEN r.body2 ELSE r.body

\* The GETs a call of _getpdb issued.
Gets(h, n) ==
  [k \in 1..n |-> [idx |-> idx, host |-> h, type |-> type,
                   url |-> Url(code, type, h, k), verify |-> args.verify]]

\* Lines 152-156: _getpdb is called on host h and the network answers r.
Fetch(h) ==
  /\ pc = "hosts"
  /\ host <= Len(HostKeys)
  /\ HostKeys[host] = h
  /\ HostSupports(type, h)
  /\ \E r \in ResponsesOf(h, served) :
       LET res == GetpdbHost(code, type, h, r)
           nxt == AfterFetch(res.exc = "none", host)
       IN  /\ requests' = requests \o Gets(h, res.gets)
           /\ tried' = [tried EXCEPT ![idx] =
                          Append(@, [host |-> h, ok |-> res.exc = "none"])]
           /\ IF res.exc = "none"
                THEN /\ data' = res.data
                     /\ okAt' = [okAt EXCEPT ![idx] = Len(requests')]
                     /\ payload' = [payload EXCEPT ![idx] = Text(h, r)]
                     /\ log' = log
                     /\ pc' = nxt.pc
                     /\ host' = nxt.host
                ELSE /\ data' = data
                     /\ okAt' = okAt
                     /\ payload' = payload
                     /\ IF FetchCaught(res.exc)
                          THEN /\ log' = Append(log, Msg("warning", "fetch", h))
                               /\ pc' = nxt.pc
                               /\ host' = nxt.host
                          ELSE /\ log' = log
                               /\ pc' = "crashed"
                               /\ host' = host
  /\ UNCHANGED <<served, argv, args, idx, type, output, fs, dirs, handles, called,
                 created>>

FetchRcsb == Fetch("rcsb")
FetchRcsbLigand == Fetch("rcsb-ligand")
FetchPubchem == Fetch("pubchem")
FetchAlphafold == Fetch("alphafold")

\* Line 146: the loop ends when the keys are exhausted.
EndLoop ==
  /\ pc = "hosts"
  /\ host > Len(HostKeys)
  /\ pc' = "check"
  /\ UNCHANGED <<served, argv, args, idx, type, host, data, output, requests, log,
                 fs, dirs, handles, called, okAt, tried, payload, created>>

\* Lines 159-169: no data is an error and getpdb returns; else the output
\* name is made.
CheckData ==
  /\ pc = "check"
  /\ IF NotData(data)
       THEN /\ log' = Append(log, Msg("error", "could-not-fetch", ""))
            /\ output' = output
            /\ pc' = "main"
            /\ idx' = idx + 1
       ELSE /\ output' = OutputName(code, type, args.dir)
            /\ log' = log
            /\ pc' = "write"
            /\ idx' = idx
  /\ UNCHANGED <<served, argv, args, type, host, data, requests, fs, dirs, handles,
                 called, okAt, tried, payload, created>>

\* Lines 170-182: the write step, and getpdb returns.  The file object is
\* never closed by the code: it stays open, with no reference left to it.
WriteOutput ==
  /\ pc = "write"
  /\ \E env \in WriteEnvs(args.dir, data) :
       LET w == WriteResult(args.dir, data, env)
           made == (IF w.mkdir THEN {args.dir[1]} ELSE {})
                     \cup (IF w.opened THEN {output} ELSE {})
       IN  /\ dirs' = IF w.mkdir THEN dirs \cup {args.dir[1]} ELSE dirs
           /\ fs' = IF w.opened
                      THEN [n \in DOMAIN fs \cup {output} |->
                              IF n = output THEN w.text ELSE fs[n]]
                      ELSE fs
           /\ handles' = IF w.opened THEN handles \cup {idx} ELSE handles
           /\ created' = [created EXCEPT ![idx] = made]
           /\ IF w.exc = "none"
                THEN /\ log' = Append(log, Msg("info", "finished", ""))
                     /\ pc' = "main"
                     /\ idx' = idx + 1
                ELSE IF WriteCaught(w.exc)
                  THEN /\ log' = Append(log, Msg("error", "write", ""))
                       /\ pc' = "main"
                       /\ idx' = idx + 1
                  ELSE /\ log' = log
                       /\ pc' = "crashed"
                       /\ idx' = idx
  /\ UNCHANGED <<served, argv, args, type, host, data, output, requests,
                 called, okAt, tried, payload>>

\* The runtime finalizes the unreferenced file objects, which closes them:
\* at once under reference counting, at some later collection otherwise.
\* Every open file object is unreferenced: getpdb returns in the step that
\* opens it.
Finalize ==
  /\ handles # {}
  /\ handles' = {}
  /\ UNCHANGED <<served, argv, args, pc, idx, type, host, data, output, requests,
                 log, fs, dirs, called, okAt, tried, payload, created>>

\* Line 235: main returns after the last identifier.
Return ==
  /\ pc = "main"
  /\ idx > Len(argv.codes)
  /\ pc' = "done"
  /\ UNCHANGED <<served, argv, args, idx, type, host, data, output, requests, log,
                 fs, dirs, handles, called, okAt, tried, payload, created>>

Next ==
  \/ ParseArgs
  \/ CallGetpdb
  \/ SkipHost
  \/ FetchRcsb
  \/ FetchRcsbLigand
  \/ FetchPubchem
  \/ FetchAlphafold
  \/ EndLoop
  \/ CheckData
  \/ WriteOutput
  \/ Finalize
  \/ Return

Spec == Init /\ [][Next]_vars

SpecOne == InitOne /\ [][Next]_vars


\* ----------------------------------------------------------------- claims
Ids == 1..Len(argv.codes)

\* The call of getpdb for identifier number i has returned.
Done(i) == i < idx \/ pc = "done"

\* The log holds the message `what` about identifier number i.
Logged(what, i) ==
  \E k \in 1..Len(log) : log[k].what = what /\ log[k].idx = i

LYZ == <<"1", "L", "Y", "Z">>
HEM == <<"H", "E", "M">>
OUT == <<"o", "u", "t">>

\* C1: once _getpdb has returned data for an identifier, no further GET is
\* issued for that identifier: every GET of the identifier is at or before
\* the position the log of GETs had when the retrieval succeeded.
NoRequestAfterSuccess ==
  \A i \in Ids :
    okAt[i] # 0 =>
      \A k \in 1..Len(requests) : requests[k].idx = i => k <= okAt[i]

\* C1's case: a call has returned after rcsb failed and rcsb-ligand served
\* a cif file, with alphafold (which supports cif) still ahead in the order.
SuccessBeforeLastHost ==
  \E i \in Ids :
    /\ Done(i)
    /\ okAt[i] # 0
    /\ requests[okAt[i]].host = "rcsb-ligand"
    /\ Lower(requests[okAt[i]].type) = <<"c", "i", "f">>

\* C2: no GET goes to a host whose list lacks the lower-cased type, and
\* each host skipped with the warning got no GET for that identifier.
UnsupportedHostNeverContacted ==
  /\ \A k \in 1..Len(requests) :
       Lower(requests[k].type) \in DATABASE_HOSTS[requests[k].host]
  /\ \A m \in 1..Len(log) :
       log[m].what = "unsupported" =>
         /\ log[m].level = "warning"
         /\ \A k \in 1..Len(requests) :
              ~(requests[k].idx = log[m].idx /\ requests[k].host = log[m].host)

\* C2's case: with the type given as CIF, pubchem was skipped with the
\* warning and the loop went on to contact alphafold.
SkippedThenContacted ==
  \E m \in 1..Len(log) :
    /\ log[m].what = "unsupported"
    /\ log[m].type = <<"C", "I", "F">>
    /\ log[m].host = "pubchem"
    /\ \E k \in 1..Len(requests) :
         requests[k].idx = log[m].idx /\ requests[k].host = "alphafold"

\* C3: a call that returned with no retrieval having succeeded made no
\* file and no directory and logged the 'Could not fetch' error, and no
\* exception leaves getpdb while no retrieval has succeeded.
NoOutputWhenAllHostsFail ==
  /\ \A i \in Ids :
       (Done(i) /\ okAt[i] = 0) =>
         /\ created[i] = {}
         /\ \E k \in 1..Len(log) :
              /\ log[k].what = "could-not-fetch"
              /\ log[k].idx = i
              /\ log[k].level = "error"
  /\ pc = "crashed" => okAt[idx] # 0

\* C3's case: a call has returned after every host eligible for cif
\* (rcsb, rcsb-ligand, alphafold) was contacted and failed.
AllEligibleHostsFailed ==
  \E i \in Ids :
    /\ Done(i)
    /\ okAt[i] = 0
    /\ Len(tried[i]) = 3

\* C4: no exception ends the run, getpdb is called for the identifiers in
\* the given order without a gap, and when main returns it has been
\* called for every one of them.
EveryIdentifierProcessed ==
  /\ pc # "crashed"
  /\ called = [k \in 1..Len(called) |-> k]
  /\ pc \in {"hosts", "check", "write"} => Len(called) = idx
  /\ pc = "main" => Len(called) = idx - 1
  /\ pc = "done" => Len(called) = Len(argv.codes)

\* C4's case: the run has ended, the first identifier's write step failed
\* and the second identifier was fetched and written.
WrittenAfterWriteFailure ==
  /\ pc = "done"
  /\ Len(argv.codes) >= 2
  /\ Logged("write", 1)
  /\ Logged("finished", 2)

\* C5: every GET is issued with TLS verification on unless --no-ssl-verify
\* was given, and with verification off when it was.
VerifyUnlessFlag ==
  \A k \in 1..Len(requests) : requests[k].verify = ~argv.noSslVerify

\* The type C6 expects for identifier number i.
DefaultFor(i) ==
  IF Len(argv.codes[i]) < 4 THEN <<"s", "d", "f">> ELSE <<"c", "i", "f">>

\* C6: with no type on the command line, every capability warning, every
\* GET and every output file of identifier number i uses sdf when the
\* identifier is shorter than 4 characters and cif otherwise.
InferredTypeByLength ==
  argv.type = None =>
    /\ \A k \in 1..Len(requests) : requests[k].type = DefaultFor(requests[k].idx)
    /\ \A m \in 1..Len(log) :
         log[m].what = "unsupported" => log[m].type = DefaultFor(log[m].idx)
    /\ \A i \in Ids :
         \A n \in created[i] \ {OUT} :
           n \in {argv.codes[i] \o <<".">> \o DefaultFor(i),
                  OUT \o <<"/">> \o argv.codes[i] \o <<".">> \o DefaultFor(i)}

\* C6's case: a run over 1LYZ then HEM with no type has ended and both
\* identifiers were written.
BothLengthsWritten ==
  /\ pc = "done"
  /\ argv.type = None
  /\ argv.codes = <<LYZ, HEM>>
  /\ Logged("finished", 1)
  /\ Logged("finished", 2)

\* The case of C7: the call for 1LYZ with no type has just returned, rcsb
\* served it and the write step finished.
LyzServedByRcsb ==
  /\ pc = "main"
  /\ idx = 2
  /\ argv.codes[1] = LYZ
  /\ argv.type = None
  /\ okAt[1] # 0
  /\ requests[okAt[1]].host = "rcsb"
  /\ Logged("finished", 1)

\* What C7 says of the case, for an output file of the given name.
LyzOutcome(name) ==
  LET file == IF argv.dir = None THEN name ELSE OUT \o <<"/">> \o name
  IN  /\ \A k \in 1..Len(requests) :
           requests[k].host = "rcsb" /\ requests[k].type = <<"c", "i", "f">>
      /\ file \in DOMAIN fs
      /\ fs[file] = payload[1] \o <<NL>>
      /\ created[1] \ {OUT} = {file}

\* C7 as stated: the output file is named 1lyz.cif.
LyzWrittenLowerCase ==
  LyzServedByRcsb =>
    LyzOutcome(<<"1", "l", "y", "z", ".", "c", "i", "f">>)

\* C7, amended: in that case only rcsb was contacted, with type cif, and
\* the one output file is named 1LYZ.cif (the identifier as given, the
\* type in lower case) and holds the decompressed payload, each line
\* followed by a newline.
LyzWrittenAsGiven ==
  LyzServedByRcsb =>
    LyzOutcome(<<"1", "L", "Y", "Z", ".", "c", "i", "f">>)

\* C7's case happened, with a payload of two lines.
LyzWritten ==
  /\ LyzServedByRcsb
  /\ NL \in {payload[1][k] : k \in 1..Len(payload[1])}

\* C8: the write step closes the file it opened before getpdb returns, so
\* no file object is open once the call has returned.
HandleClosedOnReturn ==
  \A i \in handles : ~Done(i)

\* The rank of a host in the order rcsb, rcsb-ligand, pubchem, alphafold.
Rank(h) ==
  CASE h = "rcsb" -> 1
    [] h = "rcsb-ligand" -> 2
    [] h = "pubchem" -> 3
    [] h = "alphafold" -> 4

\* The hosts _getpdb was called on for identifier number i, in order.
Contacted(i) == [k \in 1..Len(tried[i]) |-> tried[i][k].host]

\* Calls i and j got the same outcome from every host both contacted.
SameResponses(i, j) ==
  \A a \in 1..Len(tried[i]), b \in 1..Len(tried[j]) :
    tried[i][a].host = tried[j][b].host => tried[i][a].ok = tried[j][b].ok

\* C9: for each identifier the hosts contacted follow the order rcsb,
\* rcsb-ligand, pubchem, alphafold, each at most once; the GETs are
\* issued identifier by identifier and, within an identifier, in that
\* order of hosts; and two finished calls for the same identifier that
\* got the same responses contacted the same hosts in the same order.
HostOrderFixed ==
  /\ \A i \in Ids :
       \A a, b \in 1..Len(tried[i]) :
         a < b => Rank(tried[i][a].host) < Rank(tried[i][b].host)
  /\ \A k \in 1..(Len(requests) - 1) :
       /\ requests[k].idx <= requests[k+1].idx
       /\ requests[k].idx = requests[k+1].idx =>
            Rank(requests[k].host) <= Rank(requests[k+1].host)
  /\ \A i, j \in Ids :
       (Done(i) /\ Done(j) /\ argv.codes[i] = argv.codes[j]
          /\ SameResponses(i, j)) =>
         Contacted(i) = Contacted(j)

\* C9's case: the same identifier was processed twice, both calls found
\* rcsb failing and went on to a host that served the file.
SameRunTwice ==
  \E i, j \in Ids :
    /\ i < j
    /\ Done(j)
    /\ argv.codes[i] = argv.codes[j]
    /\ Len(tried[i]) >= 2
    /\ SameResponses(i, j)
    /\ okAt[i] # 0
    /\ okAt[j] # 0

\* C10: a finished call logged 'Could not fetch' exactly when no
\* retrieval succeeded; after a successful retrieval data is not empty
\* (an empty body gives the one line ""), and the call went on to the
\* write step.
CouldNotFetchIffNoSuccess ==
  /\ \A i \in Ids :
       Done(i) =>
         /\ Logged("could-not-fetch", i) <=> okAt[i] = 0
         /\ okAt[i] # 0 => (Logged("finished", i) \/ Logged("write", i))
  /\ (pc \in {"check", "write"} /\ okAt[idx] # 0) =>
       /\ data # <<>>
       /\ payload[idx] = <<>> => data = << <<>> >>
  /\ pc = "write" => okAt[idx] # 0

\* C10's case: a host served an empty body and the file was written.
EmptyPayloadWritten ==
  \E i \in Ids :
    /\ Done(i)
    /\ okAt[i] # 0
    /\ payload[i] = <<>>
    /\ Logged("finished", i)

=============================================================================
